---- MODULE Spec2Model ----
(***************************************************************************)
(* Model of tiddlywebplugins/markdown.py: the link-pattern registry built  *)
(* by render() and the substitution engine Markdown._do_link_patterns.     *)
(*                                                                         *)
(* A text is a sequence of one-character strings.  Offsets are Python's:   *)
(* 0-based, a span is (start, end) with end exclusive.  The 32 hexadecimal *)
(* digits of an md5 digest are carried as ONE element, Digest(s), a string *)
(* that is no character of the alphabet; it belongs to the classes \w and  *)
(* [0-9a-z] exactly as every hexadecimal digit does.                       *)
(***************************************************************************)
EXTENDS Integers, Sequences, FiniteSets, TLC

VARIABLES pc, config, tiddlyspace, tiddler_text, link_patterns, text, idx,
          scanned, queue, built, link_from_hash

vars == <<pc, config, tiddlyspace, tiddler_text, link_patterns, text, idx,
          scanned, queue, built, link_from_hash>>

(***************************************************************************)
(* Bounds of the checked inputs.                                           *)
(***************************************************************************)
MaxFrags == 3
MaxRetLen == 2

(***************************************************************************)
(* Character classes of Python's re module (ASCII).                        *)
(***************************************************************************)
Upper == {"A","B","C","D","E","F","G","H","I","J","K","L","M",
          "N","O","P","Q","R","S","T","U","V","W","X","Y","Z"}
Lower == {"a","b","c","d","e","f","g","h","i","j","k","l","m",
          "n","o","p","q","r","s","t","u","v","w","x","y","z"}
Digits == {"0","1","2","3","4","5","6","7","8","9"}
Space == {" ", "\n", "\t", "\r"}
Punct == {"[", "]", "|", "@", "-", "_", "*", "\"", ".", "/", "#", "?", "%",
          "=", "&", ":", "<", ">", ";", "\\", "~", "!", "'", "(", ")"}
Alphabet == Upper \cup Lower \cup Digits \cup Space \cup Punct

\* what indexing past either end of the text yields: no character at all
NoChar == ""

At(s, p) == IF p >= 0 /\ p < Len(s) THEN s[p + 1] ELSE NoChar

\* s[a:b]
Slice(s, a, b) == SubSeq(s, a + 1, b)

IsDigest(c) == c \notin Alphabet /\ c # NoChar

IsSpace(c) == c \in Space
IsUpper(c) == c \in Upper
IsLower(c) == c \in Lower
\* [0-9a-z]
IsNameEdge(c) == c \in Lower \cup Digits \/ IsDigest(c)
\* [0-9a-z\-]
IsNameChar(c) == IsNameEdge(c) \/ c = "-"
\* \w
IsWord(c) == c \in Upper \cup Lower \cup Digits \cup {"_"} \/ IsDigest(c)
\* [-\w./#?%=&]
IsBareChar(c) == IsWord(c) \/ c \in {"-", ".", "/", "#", "?", "%", "=", "&"}
\* . (no DOTALL)
IsDot(c) == c # NoChar /\ c # "\n"

InClass(cls, c) ==
    CASE cls = "lower" -> IsLower(c)
      [] cls = "word"  -> IsWord(c)
      [] cls = "name"  -> IsNameChar(c)
      [] cls = "bare"  -> IsBareChar(c)

\* the end of the longest run of cls characters that starts at p (a greedy X*)
RECURSIVE RunEnd(_, _, _)
RunEnd(s, p, cls) ==
    IF InClass(cls, At(s, p)) THEN RunEnd(s, p + 1, cls) ELSE p

NoMatch == [ok |-> FALSE, start |-> 0, end |-> 0, groups |-> <<>>]
Match(a, b, gs) == [ok |-> TRUE, start |-> a, end |-> b, groups |-> gs]

StartsWith(s, p, lit) ==
    \A k \in 1..Len(lit) : At(s, p + k - 1) = lit[k]

(***************************************************************************)
(* @([0-9a-z][0-9a-z\-]*[0-9a-z])(?:\s|$) tried at q.  The name is the     *)
(* whole run of [0-9a-z\-]: a shorter one is followed by a name character, *)
(* which is neither \s nor the end.  The result ends after the delimiter.  *)
(***************************************************************************)
SpaceTail(s, q) ==
    LET e == RunEnd(s, q + 1, "name")
    IN  IF /\ At(s, q) = "@"
           /\ e - (q + 1) >= 2
           /\ IsNameEdge(At(s, q + 1))
           /\ IsNameEdge(At(s, e - 1))
           /\ (IsSpace(At(s, e)) \/ e = Len(s))
        THEN Match(q, IF IsSpace(At(s, e)) THEN e + 1 ELSE e,
                   <<Slice(s, q + 1, e)>>)
        ELSE NoMatch

\* [A-Z][a-z]+[A-Z]\w+ tried at p: the end of the word, or -1
CamelEnd(s, p) ==
    LET l == RunEnd(s, p + 1, "lower")
        w == RunEnd(s, l + 1, "word")
    IN  IF IsUpper(At(s, p)) /\ l > p + 1 /\ IsUpper(At(s, l)) /\ w > l + 1
        THEN w ELSE -1

\* \[\[(.+?)\]\] : the offset of the first "]]" at or after j, or -1
RECURSIVE FreeClose(_, _)
FreeClose(s, j) ==
    IF At(s, j) = "]" /\ At(s, j + 1) = "]" THEN j
    ELSE IF IsDot(At(s, j)) THEN FreeClose(s, j + 1)
    ELSE -1

\* \[\[(.+?)\]\]@name(?:\s|$) : the first "]]" at or after j that the rest
\* of the pattern follows (the lazy group grows until it does), or -1
RECURSIVE SpaceFreeClose(_, _)
SpaceFreeClose(s, j) ==
    IF At(s, j) = "]" /\ At(s, j + 1) = "]" /\ SpaceTail(s, j + 2).ok THEN j
    ELSE IF IsDot(At(s, j)) THEN SpaceFreeClose(s, j + 1)
    ELSE -1

\* PATTERNS['freelink'] tried at offset i
FreeLinkAt(s, i) ==
    LET j == FreeClose(s, i + 3)
    IN  IF StartsWith(s, i, <<"[", "[">>) /\ IsDot(At(s, i + 2)) /\ j >= 0
        THEN Match(i, j + 2, <<Slice(s, i + 2, j)>>)
        ELSE NoMatch

\* PATTERNS['wikilink'] tried at offset i
WikiLinkAt(s, i) ==
    LET w == CamelEnd(s, i)
    IN  IF IsSpace(At(s, i - 1)) /\ w >= 0
        THEN Match(i, w, <<Slice(s, i, w)>>)
        ELSE NoMatch

\* PATTERNS['barelink'] tried at offset i
BareLinkAt(s, i) ==
    LET http == <<"h", "t", "t", "p">>
        sep  == <<":", "/", "/">>
        u == IF StartsWith(s, i, http \o sep) THEN i + 7
             ELSE IF StartsWith(s, i, http \o <<"s">> \o sep) THEN i + 8
             ELSE -1
        e == RunEnd(s, u, "bare")
    IN  IF /\ ~(At(s, i - 2) = "\"" /\ At(s, i - 1) = ">")
           /\ ~(At(s, i - 2) = "=" /\ At(s, i - 1) = "\"")
           /\ u >= 0
           /\ e > u
        THEN Match(i, e, <<Slice(s, i, e)>>)
        ELSE NoMatch

\* (?:^|\s) tried at offset i: the offsets at which the token may start
Lead(s, i) == (IF i = 0 THEN {0} ELSE {}) \cup
              (IF IsSpace(At(s, i)) THEN {i + 1} ELSE {})

\* PATTERNS['spacelink'] tried at offset i
SpaceLinkAt(s, i) ==
    LET ok == {t \in Lead(s, i) : SpaceTail(s, t).ok}
    IN  IF ok = {} THEN NoMatch
        ELSE LET t == CHOOSE x \in ok : TRUE
                 m == SpaceTail(s, t)
             IN  Match(i, m.end, m.groups)

\* PATTERNS['spacewikilink'] tried at offset i
SpaceWikiLinkAt(s, i) ==
    LET ok == {t \in Lead(s, i) :
                 CamelEnd(s, t) >= 0 /\ SpaceTail(s, CamelEnd(s, t)).ok}
    IN  IF ok = {} THEN NoMatch
        ELSE LET t == CHOOSE x \in ok : TRUE
                 w == CamelEnd(s, t)
                 m == SpaceTail(s, w)
             IN  Match(i, m.end, <<Slice(s, t, w)>> \o m.groups)

\* PATTERNS['spacefreelink'] tried at offset i
SpaceFreeLinkAt(s, i) ==
    LET ok == {t \in Lead(s, i) :
                 /\ StartsWith(s, t, <<"[", "[">>)
                 /\ IsDot(At(s, t + 2))
                 /\ SpaceFreeClose(s, t + 3) >= 0}
    IN  IF ok = {} THEN NoMatch
        ELSE LET t == CHOOSE x \in ok : TRUE
                 j == SpaceFreeClose(s, t + 3)
                 m == SpaceTail(s, j + 2)
             IN  Match(i, m.end, <<Slice(s, t + 2, j)>> \o m.groups)

\* regex.match(text, i) for the compiled expressions of PATTERNS
MatchAt(regex, s, i) ==
    CASE regex = "freelink"      -> FreeLinkAt(s, i)
      [] regex = "wikilink"      -> WikiLinkAt(s, i)
      [] regex = "barelink"      -> BareLinkAt(s, i)
      [] regex = "spacelink"     -> SpaceLinkAt(s, i)
      [] regex = "spacewikilink" -> SpaceWikiLinkAt(s, i)
      [] regex = "spacefreelink" -> SpaceFreeLinkAt(s, i)

\* regex.finditer(text): the leftmost non-overlapping matches from offset p on
RECURSIVE FindIter(_, _, _)
FindIter(regex, s, p) ==
    IF p >= Len(s) THEN <<>>
    ELSE LET m == MatchAt(regex, s, p)
         IN  IF m.ok THEN <<m>> \o FindIter(regex, s, m.end)
             ELSE FindIter(regex, s, p + 1)

(***************************************************************************)
(* External collaborators, by what they return.                            *)
(***************************************************************************)
RECURSIVE Join(_)
Join(s) == IF s = <<>> THEN "" ELSE Head(s) \o Join(Tail(s))

\* the 32 hexadecimal digits of md5(s), as one element
Digest(s) == "{" \o Join(s) \o "}"

\* markdown2._hash_text(s): 'md5-' + md5(s).hexdigest()
HashPrefix == <<"m", "d", "5", "-">>
_hash_text(s) == HashPrefix \o <<Digest(s)>>

\* markdown2.g_escape_table[ch] = _hash_text(ch)
g_escape_table(ch) == _hash_text(<<ch>>)

\* tiddlyweb.web.util.encode_name: urllib quote(name, safe=".!~*'()"), one
\* character at a time
Percent(c) ==
    CASE c = " "  -> <<"%", "2", "0">>
      [] c = "\"" -> <<"%", "2", "2">>
      [] c = "#"  -> <<"%", "2", "3">>
      [] c = "%"  -> <<"%", "2", "5">>
      [] c = "&"  -> <<"%", "2", "6">>
      [] c = "/"  -> <<"%", "2", "F">>
      [] c = ":"  -> <<"%", "3", "A">>
      [] c = ";"  -> <<"%", "3", "B">>
      [] c = "<"  -> <<"%", "3", "C">>
      [] c = "="  -> <<"%", "3", "D">>
      [] c = ">"  -> <<"%", "3", "E">>
      [] c = "?"  -> <<"%", "3", "F">>
      [] c = "@"  -> <<"%", "4", "0">>
      [] c = "["  -> <<"%", "5", "B">>
      [] c = "\\" -> <<"%", "5", "C">>
      [] c = "]"  -> <<"%", "5", "D">>
      [] c = "|"  -> <<"%", "7", "C">>
      [] c = "\n" -> <<"%", "0", "A">>
      [] c = "\t" -> <<"%", "0", "9">>
      [] c = "\r" -> <<"%", "0", "D">>
      [] OTHER    -> <<c>>

RECURSIVE encode_name(_)
encode_name(name) ==
    IF name = <<>> THEN <<>>
    ELSE Percent(Head(name)) \o encode_name(Tail(name))

\* tiddlywebplugins.tiddlyspace.spaces.space_uri(environ, space_name), for a
\* server whose configured host is "x"
space_uri(space_name) ==
    <<"h", "t", "t", "p", ":", "/", "/">> \o space_name \o <<".", "x", "/">>

(***************************************************************************)
(* Replacement strategies.                                                 *)
(***************************************************************************)
\* the offset of the first "|" of s at or after p, or -1
RECURSIVE FirstPipe(_, _)
FirstPipe(s, p) ==
    IF p >= Len(s) THEN -1
    ELSE IF At(s, p) = "|" THEN p
    ELSE FirstPipe(s, p + 1)

\* a variant that splits at the LAST pipe (rsplit), to show that the
\* free-link property depends on where the split happens
RECURSIVE LastPipe(_, _)
LastPipe(s, p) ==
    IF p < 0 THEN -1
    ELSE IF At(s, p) = "|" THEN p
    ELSE LastPipe(s, p - 1)

SplitLabel_Last(s) ==
    LET p == LastPipe(s, Len(s) - 1)
    IN  IF p < 0 THEN [label |-> s, page |-> s]
        ELSE [label |-> Slice(s, 0, p), page |-> Slice(s, p + 1, Len(s))]

\* label, page = s.split("|", 1), and label = page = s on ValueError
SplitLabel(s) ==
    LET p == FirstPipe(s, 0)
    IN  IF p < 0 THEN [label |-> s, page |-> s]
        ELSE [label |-> Slice(s, 0, p), page |-> Slice(s, p + 1, Len(s))]

Pair(a, b) == [is_pair |-> TRUE, a |-> a, b |-> b]
Scalar(a) == [is_pair |-> FALSE, a |-> a, b |-> <<>>]

\* FreeLinker.__call__
FreeLinker(base, m) ==
    LET lp == SplitLabel(m.groups[1])
    IN  Pair(lp.page, lp.label)

\* SpaceLinker.__call__
SpaceLinker(m) ==
    IF Len(m.groups) = 1
    THEN Pair(space_uri(m.groups[1]), <<"@">> \o m.groups[1])
    ELSE LET lp == SplitLabel(m.groups[1])
         IN  Pair(space_uri(m.groups[2]) \o encode_name(lp.page), lp.label)

\* match.expand(template): a backslash and a digit stand for that group
RECURSIVE MatchExpand(_, _)
MatchExpand(template, m) ==
    IF template = <<>> THEN <<>>
    ELSE IF Head(template) = "\\" /\ Len(template) >= 2 /\ template[2] = "1"
    THEN m.groups[1] \o MatchExpand(Tail(Tail(template)), m)
    ELSE <<Head(template)>> \o MatchExpand(Tail(template), m)

\* repl(match) for the callable strategies; "callback" is a callable of the
\* caller's that returns the one string it was built with
Call(repl, m) ==
    CASE repl.kind = "FreeLinker"  -> FreeLinker(repl.arg, m)
      [] repl.kind = "SpaceLinker" -> SpaceLinker(m)
      [] repl.kind = "callback"    -> Scalar(repl.arg)

\* href, title = components; except ValueError: href = components.
\* Unpacking a string yields its characters, and succeeds when there are two.
Unpack(components) ==
    IF components.is_pair
    THEN [href |-> components.a, title |-> components.b, title_none |-> FALSE]
    ELSE IF Len(components.a) = 2
    THEN [href |-> <<components.a[1]>>, title |-> <<components.a[2]>>,
          title_none |-> FALSE]
    ELSE [href |-> components.a, title |-> <<>>, title_none |-> TRUE]

\* one entry of `replacements`; group0 is match.group(0), which the span
\* stands for
Replacement(repl, s, m) ==
    LET c == IF repl.kind = "template"
             THEN [href |-> MatchExpand(repl.arg, m), title |-> <<>>,
                   title_none |-> TRUE]
             ELSE Unpack(Call(repl, m))
    IN  [start |-> m.start, end |-> m.end, href |-> c.href,
         title |-> c.title, title_none |-> c.title_none,
         group0 |-> Slice(s, m.start, m.end)]

\* the inner loop of lines 94-104 over one pattern
Replacements(pattern, s) ==
    LET ms == FindIter(pattern.regex, s, 0)
    IN  [k \in 1..Len(ms) |-> Replacement(pattern.repl, s, ms[k])]

\* a variant that keeps the ascending order of finditer
Reversed_Forward(s) == s

\* reversed(replacements)
Reversed(s) == [k \in 1..Len(s) |-> s[Len(s) + 1 - k]]

\* str.replace(old, new) on every character equal to old
RECURSIVE ReplaceChar(_, _, _)
ReplaceChar(s, old, new) ==
    IF s = <<>> THEN <<>>
    ELSE (IF Head(s) = old THEN new ELSE <<Head(s)>>)
         \o ReplaceChar(Tail(s), old, new)

\* a variant that forgets the last .replace('_', ...)
EscapeHref_NoUnderscore(href) ==
    ReplaceChar(ReplaceChar(href,
        "\"", <<"&", "q", "u", "o", "t", ";">>),
        "*", g_escape_table("*"))

\* lines 106-110
EscapeHref(href) ==
    ReplaceChar(ReplaceChar(ReplaceChar(href,
        "\"", <<"&", "q", "u", "o", "t", ";">>),
        "*", g_escape_table("*")),
        "_", g_escape_table("_"))

\* '<a href="%s">%s</a>' % (escaped_href, title)
Anchor(escaped_href, title) ==
    <<"<", "a", " ", "h", "r", "e", "f", "=", "\"">> \o escaped_href
    \o <<"\"", ">">> \o title \o <<"<", "/", "a", ">">>

\* text.replace(old, new): every non-overlapping occurrence, left to right
RECURSIVE StrReplace(_, _, _)
StrReplace(s, old, new) ==
    IF Len(s) < Len(old) THEN s
    ELSE IF SubSeq(s, 1, Len(old)) = old
    THEN new \o StrReplace(SubSeq(s, Len(old) + 1, Len(s)), old, new)
    ELSE <<Head(s)>> \o StrReplace(Tail(s), old, new)

\* link_from_hash[hash] = link on a dict that keeps insertion order
DictPut(d, hash, link) ==
    IF \E k \in 1..Len(d) : d[k].hash = hash
    THEN [k \in 1..Len(d) |->
            IF d[k].hash = hash THEN [hash |-> hash, link |-> link] ELSE d[k]]
    ELSE Append(d, [hash |-> hash, link |-> link])

\* the loop of lines 117-118, visiting the entries of d in the given order
RECURSIVE ExpandIn(_, _, _)
ExpandIn(s, d, order) ==
    IF order = <<>> THEN s
    ELSE ExpandIn(StrReplace(s, d[Head(order)].hash, d[Head(order)].link),
                  d, Tail(order))

Orders(n) == {o \in [1..n -> 1..n] : \A i, j \in 1..n : o[i] = o[j] => i = j}

(***************************************************************************)
(* The registry render() builds.                                           *)
(***************************************************************************)
Strategy(kind, arg) == [kind |-> kind, arg |-> arg]
Pattern(regex, repl) == [regex |-> regex, repl |-> repl]

\* link_patterns.insert(0, (PATTERNS[pattern], SpaceLinker(environ)))
Insert0(patterns, name) ==
    <<Pattern(name, Strategy("SpaceLinker", <<>>))>> \o patterns

\* a variant that puts the names in front in the order they are listed
InsertEach_InOrder(patterns, names) ==
    [k \in 1..Len(names) |-> Pattern(names[k], Strategy("SpaceLinker", <<>>))]
    \o patterns

\* for pattern in names: link_patterns.insert(0, ...)
RECURSIVE InsertEach(_, _)
InsertEach(patterns, names) ==
    IF names = <<>> THEN patterns
    ELSE InsertEach(Insert0(patterns, Head(names)), Tail(names))

SpacePatternNames == <<"spacelink", "spacewikilink", "spacefreelink">>

\* a variant that tests the base for truth ('if wiki_link_base:'), so that
\* the empty string counts as no base
RenderPatterns_Truthy(cfg, space) ==
    IF cfg.has_base /\ cfg.wiki_link_base # <<>>
    THEN LET base == <<Pattern("freelink",
                               Strategy("FreeLinker", cfg.wiki_link_base)),
                       Pattern("wikilink", Strategy("template", <<"\\", "1">>)),
                       Pattern("barelink", Strategy("template", <<"\\", "1">>))>>
         IN  IF space THEN InsertEach(base, SpacePatternNames) ELSE base
    ELSE <<>>

\* lines 126-138: cfg.has_base is FALSE when the configuration holds no
\* 'markdown.wiki_link_base' (the lookup yields None); space is whether the
\* import of line 36 succeeded, so that PATTERNS holds 'spacelink'
RenderPatterns(cfg, space) ==
    IF cfg.has_base
    THEN LET base == <<Pattern("freelink",
                               Strategy("FreeLinker", cfg.wiki_link_base)),
                       Pattern("wikilink", Strategy("template", <<"\\", "1">>)),
                       Pattern("barelink", Strategy("template", <<"\\", "1">>))>>
         IN  IF space THEN InsertEach(base, SpacePatternNames) ELSE base
    ELSE <<>>

(***************************************************************************)
(* The inputs: documents made of at most MaxFrags fragments, the three     *)
(* configurations of the link base, and, for a processor constructed by    *)
(* another caller, a callable that returns one string.                     *)
(***************************************************************************)
Fragments ==
    << <<" ">>,
       <<"[", "[", "a", "]", "]">>,
       <<"[", "[", "a", "|", "b", "*", "|", "_", "\"", "]", "]">>,
       <<"[", "[", "|", "b", "]", "]">>,
       <<"A", "b", "C", "d">>,
       <<"h", "t", "t", "p", ":", "/", "/", "a", "/">>,
       <<"@", "a", "b">>,
       <<"]", "]">>,
       <<"=", "\"">>,
       <<"x">> >>

RECURSIVE Concat(_)
Concat(fs) ==
    IF fs = <<>> THEN <<>> ELSE Fragments[Head(fs)] \o Concat(Tail(fs))

Documents ==
    {Concat(fs) : fs \in UNION {[1..n -> 1..Len(Fragments)] : n \in 0..MaxFrags}}

Configs ==
    {[has_base |-> FALSE, wiki_link_base |-> <<>>],
     [has_base |-> TRUE,  wiki_link_base |-> <<>>],
     [has_base |-> TRUE,  wiki_link_base |-> <<"/", "w", "/">>]}

\* what such a callable returns: 'u_vw...' cut to every length up to MaxRetLen
ReturnedStrings ==
    {SubSeq(<<"u", "_", "v", "w", "x", "y", "z">>, 1, n) : n \in 0..MaxRetLen}

CallerPatterns ==
    {<<Pattern("freelink", Strategy("callback", r))>> : r \in ReturnedStrings}

NoAnchor ==
    [pattern |-> 0, regex |-> "", strategy |-> "", start |-> 0, end |-> 0, group0 |-> <<>>, src |-> <<>>,
     href |-> <<>>, title |-> <<>>, title_none |-> TRUE,
     escaped_href |-> <<>>, label |-> <<>>, link |-> <<>>, hash |-> <<>>]

Init ==
    /\ tiddler_text \in Documents
    /\ text = tiddler_text
    /\ \/ /\ pc = "render"
          /\ config \in Configs
          /\ tiddlyspace \in BOOLEAN
          /\ link_patterns = <<>>
       \/ /\ pc = "scan"
          /\ config = [has_base |-> FALSE, wiki_link_base |-> <<>>]
          /\ tiddlyspace = FALSE
          /\ link_patterns \in CallerPatterns
    /\ idx = 1
    /\ scanned = <<>>
    /\ queue = <<>>
    /\ built = NoAnchor
    /\ link_from_hash = <<>>

\* render(): lines 126-141, up to the converter's call of _do_link_patterns
Render ==
    /\ pc = "render"
    /\ link_patterns' = RenderPatterns(config, tiddlyspace)
    /\ pc' = "scan"
    /\ UNCHANGED <<config, tiddlyspace, tiddler_text, text, idx, scanned,
                   queue, built, link_from_hash>>

\* lines 92-104: the matches of the next pattern, and line 105's reversed();
\* scanned is match.string, the text finditer was given
Scan ==
    /\ pc = "scan"
    /\ idx <= Len(link_patterns)
    /\ scanned' = text
    /\ queue' = Reversed(Replacements(link_patterns[idx], text))
    /\ pc' = "replace"
    /\ UNCHANGED <<config, tiddlyspace, tiddler_text, link_patterns, text, idx,
                   built, link_from_hash>>

\* lines 105-116: one iteration of the replacement loop
Replace ==
    /\ pc = "replace"
    /\ queue # <<>>
    /\ LET r == Head(queue)
           src == Slice(text, r.start, r.end)
           escaped_href == EscapeHref(r.href)
           title == IF r.title_none \/ r.title = <<>> THEN src ELSE r.title
           link == Anchor(escaped_href, title)
           hash == _hash_text(link)
       IN  /\ built' = [pattern |-> idx,
                        regex |-> link_patterns[idx].regex,
                        strategy |-> link_patterns[idx].repl.kind,
                        start |-> r.start, end |-> r.end,
                        group0 |-> r.group0, src |-> src,
                        href |-> r.href, title |-> r.title,
                        title_none |-> r.title_none,
                        escaped_href |-> escaped_href, label |-> title,
                        link |-> link, hash |-> hash]
           /\ link_from_hash' = DictPut(link_from_hash, hash, link)
           /\ text' = Slice(text, 0, r.start) \o hash
                      \o Slice(text, r.end, Len(text))
    /\ queue' = Tail(queue)
    /\ UNCHANGED <<pc, config, tiddlyspace, tiddler_text, link_patterns, idx,
                   scanned>>

\* line 92: the outer loop goes on to the next pattern
NextPattern ==
    /\ pc = "replace"
    /\ queue = <<>>
    /\ idx' = idx + 1
    /\ pc' = "scan"
    /\ UNCHANGED <<config, tiddlyspace, tiddler_text, link_patterns, text,
                   scanned, queue, built, link_from_hash>>

\* lines 117-119: the final pass, in whatever order the dict iterates
Expand ==
    /\ pc = "scan"
    /\ idx > Len(link_patterns)
    /\ \E order \in Orders(Len(link_from_hash)) :
          text' = ExpandIn(text, link_from_hash, order)
    /\ pc' = "done"
    /\ UNCHANGED <<config, tiddlyspace, tiddler_text, link_patterns, idx,
                   scanned, queue, built, link_from_hash>>

Next == Render \/ Scan \/ Replace \/ NextPattern \/ Expand

Spec == Init /\ [][Next]_vars

(***************************************************************************)
(* Vocabulary of the properties.                                           *)
(***************************************************************************)
\* the processor was handed a registry by another caller than render()
FromCaller == link_patterns # <<>> /\ link_patterns[1].repl.kind = "callback"

\* render() has built the registry
Rendered == pc # "render" /\ ~FromCaller

Names(patterns) == [k \in 1..Len(patterns) |-> patterns[k].regex]

\* the loop of lines 105-116 has built an anchor
Built == built.regex # ""

Occurs(sub, s) ==
    \E p \in 0..(Len(s) - Len(sub)) : Slice(s, p, p + Len(sub)) = sub

Has(c, s) == \E k \in 1..Len(s) : s[k] = c

CountOf(c, s) == Cardinality({k \in 1..Len(s) : s[k] = c})

\* offset i of s lies inside a placeholder 'md5-' + digest
InPlaceholder(s, i) ==
    \E d \in 0..(Len(s) - 1) :
        /\ IsDigest(At(s, d))
        /\ Slice(s, d - 4, d) = HashPrefix
        /\ i \in (d - 4)..d

\* the text between the brackets of a matched free link
Inner(group0) == Slice(group0, 2, Len(group0) - 2)

PipeAt(x) == CHOOSE p \in 0..(Len(x) - 1) :
                 At(x, p) = "|" /\ \A q \in 0..(p - 1) : At(x, q) # "|"

\* what the escaping of an href is to be, character by character
EscapedChar(c) ==
    CASE c = "\"" -> <<"&", "q", "u", "o", "t", ";">>
      [] c = "*"  -> g_escape_table("*")
      [] c = "_"  -> g_escape_table("_")
      [] OTHER    -> <<c>>

RECURSIVE EscapedWhole(_)
EscapedWhole(h) ==
    IF h = <<>> THEN <<>> ELSE EscapedChar(Head(h)) \o EscapedWhole(Tail(h))

\* C1: with no 'markdown.wiki_link_base' configured the registry render()
\* builds is empty, and only then (the empty string is a base); with the
\* empty registry the text stays identical to the document and no
\* placeholder is recorded, up to and including the returned text.
C1_NoBaseNoSubstitution ==
    Rendered =>
        /\ (link_patterns = <<>>) <=> ~config.has_base
        /\ ~config.has_base => text = tiddler_text /\ link_from_hash = <<>>

\* C1 witness: a render without a base has returned a document that holds
\* a free link.
C1_Witness ==
    /\ pc = "done"
    /\ link_patterns = <<>>
    /\ ~config.has_base
    /\ FindIter("freelink", tiddler_text, 0) # <<>>

\* C2 as stated: a free link [[A|B]] yields the anchor with href B and text
\* A, for every A, the empty one included, the split being at the first
\* pipe; [[X]] without a pipe yields href X and text X; no base in the href.
C2_FreeLinkAnchor ==
    Built /\ built.strategy = "FreeLinker" =>
        LET x == Inner(built.group0)
        IN  IF Has("|", x)
            THEN built.link = Anchor(Slice(x, PipeAt(x) + 1, Len(x)),
                                     Slice(x, 0, PipeAt(x)))
            ELSE built.link = Anchor(x, x)

\* C2 as amended: the href is B (X without a pipe) as the engine escapes
\* it, the text is A when A is not empty, and the whole matched span
\* [[|B]] when A is empty.
C2_FreeLinkAnchorAmended ==
    Built /\ built.strategy = "FreeLinker" =>
        LET x == Inner(built.group0)
            a == IF Has("|", x) THEN Slice(x, 0, PipeAt(x)) ELSE x
            b == IF Has("|", x) THEN Slice(x, PipeAt(x) + 1, Len(x)) ELSE x
        IN  /\ built.link = Anchor(EscapedWhole(b),
                                   IF a = <<>> THEN built.group0 ELSE a)
            /\ built.href = b

\* C2 witness: an anchor was built for a free link with two pipes.
C2_Witness ==
    /\ Built
    /\ built.strategy = "FreeLinker"
    /\ CountOf("|", Inner(built.group0)) >= 2

\* C3 as stated: with a base, the registry is space-link, space-wiki-link,
\* space-free-link, free-link, wiki-link, bare-link when tenant support is
\* available, and free-link, wiki-link, bare-link when it is not.
C3_RegistryOrder ==
    Rendered /\ config.has_base =>
        Names(link_patterns) =
            IF tiddlyspace
            THEN <<"spacelink", "spacewikilink", "spacefreelink",
                   "freelink", "wikilink", "barelink">>
            ELSE <<"freelink", "wikilink", "barelink">>

\* C3 as amended: the tenant patterns come first in the order
\* space-free-link, space-wiki-link, space-link; the engine takes the
\* patterns in registry order, so an anchor is never built for a pattern
\* that follows the one being processed.
C3_RegistryOrderAmended ==
    Rendered /\ config.has_base =>
        /\ Names(link_patterns) =
              IF tiddlyspace
              THEN <<"spacefreelink", "spacewikilink", "spacelink",
                     "freelink", "wikilink", "barelink">>
              ELSE <<"freelink", "wikilink", "barelink">>
        /\ Built => /\ built.pattern <= idx
                    /\ built.regex = link_patterns[built.pattern].regex

\* C3 witness: with tenant support, a render has gone through the registry
\* and its last anchor is a bare link's, the sixth pattern.
C3_Witness ==
    /\ pc = "done"
    /\ Rendered
    /\ tiddlyspace
    /\ built.pattern = 6
    /\ built.regex = "barelink"

\* C4: the href of a CamelCase wiki link's anchor is wiki_link_base followed
\* by the matched word.
C4_WikiLinkHrefHasBase ==
    Built /\ built.regex = "wikilink" =>
        built.href = config.wiki_link_base \o built.group0

\* C5: the final pass gives the same text whatever the order in which it
\* visits the placeholder map, and no recorded placeholder is left in the
\* returned text.
C5_FinalPassOrderFree ==
    /\ pc = "scan" /\ idx > Len(link_patterns) =>
          \A o1, o2 \in Orders(Len(link_from_hash)) :
              ExpandIn(text, link_from_hash, o1)
                  = ExpandIn(text, link_from_hash, o2)
    /\ pc = "done" =>
          \A k \in 1..Len(link_from_hash) :
              ~Occurs(link_from_hash[k].hash, text)

\* C6: no match of a pattern touches a placeholder spliced in by an earlier
\* pattern, and no anchor's href or label holds a digest.
C6_MatchesAvoidPlaceholders ==
    /\ pc = "replace" =>
          \A k \in 1..Len(queue) :
              \A i \in queue[k].start..(queue[k].end - 1) :
                  ~InPlaceholder(text, i)
    /\ Built => /\ \A k \in 1..Len(built.href) : ~IsDigest(built.href[k])
                /\ \A k \in 1..Len(built.label) : ~IsDigest(built.label[k])

\* C7: the span a replacement takes out of the text is the link token only:
\* it neither begins nor ends with the whitespace that delimits the token.
C7_OnlyTokenReplaced ==
    Built => /\ ~IsSpace(At(built.src, 0))
             /\ ~IsSpace(At(built.src, Len(built.src) - 1))

\* C8: a string returned by a callable strategy is the href, whole, whatever
\* its length; the title stays unset and the label is the matched span.
C8_ScalarIsHref ==
    Built /\ built.strategy = "callback" =>
        /\ built.href = link_patterns[built.pattern].repl.arg
        /\ built.title_none
        /\ built.label = built.group0

\* C9: in one pattern's pass the pending replacements are in descending
\* offset order and disjoint; the text up to the end of the next span to be
\* replaced is still the text that was scanned, so each pending span still
\* holds its match; the span just replaced held its match when it was
\* replaced, and a missing title was filled with exactly that match.
C9_ReverseOrderKeepsOffsets ==
    /\ pc = "replace" =>
          /\ \A k \in 1..(Len(queue) - 1) : queue[k + 1].end <= queue[k].start
          /\ \A k \in 1..Len(queue) :
                /\ queue[k].group0 = Slice(scanned, queue[k].start, queue[k].end)
                /\ Slice(text, 0, queue[k].end) = Slice(scanned, 0, queue[k].end)
          /\ Built /\ built.pattern = idx /\ queue # <<>> =>
                Head(queue).end <= built.start
    /\ Built => /\ built.src = built.group0
                /\ built.title_none => built.label = built.group0

\* C9 witness: two adjacent free links; the second has been replaced by its
\* placeholder, which moved the end of the text, and the first is pending.
C9_Witness ==
    /\ pc = "replace"
    /\ Len(queue) = 1
    /\ Built
    /\ built.pattern = idx
    /\ built.regex = "freelink"
    /\ Head(queue).end + 1 = built.start
    /\ Len(text) # Len(scanned)

\* C10: the href written into an anchor is the strategy's href with every
\* double quote turned into &quot; and every '*' and '_' into its
\* escape-table token, so it holds no literal double quote, '*' or '_'.
C10_HrefEscaped ==
    Built =>
        /\ built.escaped_href = EscapedWhole(built.href)
        /\ \A k \in 1..Len(built.escaped_href) :
              built.escaped_href[k] \notin {"\"", "*", "_"}
        /\ built.link = Anchor(built.escaped_href, built.label)

\* C10 witness: an anchor was built whose href held all three characters.
C10_Witness ==
    /\ Built
    /\ Has("\"", built.href)
    /\ Has("*", built.href)
    /\ Has("_", built.href)

====
